---- MODULE Spec2Model ----
(***************************************************************************)
(* Model of the price tracker (src/main.py, class PriceTracker):           *)
(*   - the price parser and the two extractors behind get_price,           *)
(*   - the SQLite store (tables products and price_history, with the       *)
(*     write lock a connection holds from its first write to its commit),  *)
(*   - the UI handlers that touch the store or the tracking flag,          *)
(*   - the threads that run check_all_prices: the tracking loop started    *)
(*     by start_tracking and the thread started by check_prices_manual.    *)
(***************************************************************************)
EXTENDS Integers, Sequences, FiniteSets, TLC

\* Python's None where a number is expected (an absent price, target or
\* timestamp); no number of the program is negative.
None == -1

(***************************************************************************)
(* Bounds of the model.                                                    *)
(***************************************************************************)
\* threads that can exist at once (tracking workers and manual check threads)
MaxThreads == 2
\* rows of price_history, committed or pending, the model lets exist at once
MaxHistory == 2
\* last value of the wall clock
MaxClock == 1
\* digits kept after the decimal point of a parsed price
FracDigits == 1
\* characters of the longest text given to the price parser on its own
MaxText == 3

(***************************************************************************)
(* Price Parser: parse_price_text.                                         *)
(* A text is a sequence of one-character strings.  A price is a fixed      *)
(* point number, counted in units of 10^-FracDigits.                       *)
(***************************************************************************)
Digits == {"0", "1", "2", "3", "4", "5", "6", "7", "8", "9"}

DigitVal(c) ==
    CASE c = "0" -> 0 [] c = "1" -> 1 [] c = "2" -> 2 [] c = "3" -> 3
      [] c = "4" -> 4 [] c = "5" -> 5 [] c = "6" -> 6 [] c = "7" -> 7
      [] c = "8" -> 8 [] c = "9" -> 9

RECURSIVE Pow10(_)
Pow10(n) == IF n = 0 THEN 1 ELSE 10 * Pow10(n - 1)

Scale == Pow10(FracDigits)

\* re.sub(pattern, '', text): the characters of text that are in keep
RECURSIVE KeepChars(_, _)
KeepChars(text, keep) ==
    IF text = <<>> THEN <<>>
    ELSE IF Head(text) \in keep
         THEN <<Head(text)>> \o KeepChars(Tail(text), keep)
         ELSE KeepChars(Tail(text), keep)

\* value of a string of digits read as a decimal natural number
RECURSIVE NatOf(_)
NatOf(ds) ==
    IF ds = <<>> THEN 0
    ELSE 10 * NatOf(SubSeq(ds, 1, Len(ds) - 1)) + DigitVal(ds[Len(ds)])

\* value of the digits after the point, in units of 10^-FracDigits
FracOf(ds) ==
    LET kept == SubSeq(ds, 1, IF Len(ds) < FracDigits THEN Len(ds) ELSE FracDigits)
    IN  NatOf(kept) * Pow10(FracDigits - Len(kept))

\* a float() that reads the empty text as zero
FloatOf_lenient(text) ==
    LET dots == {i \in 1..Len(text) : text[i] = "."}
    IN  IF Cardinality(dots) > 1 \/ (Len(text) > 0 /\ Cardinality(dots) = Len(text))
        THEN None
        ELSE IF dots = {}
             THEN NatOf(text) * Scale
             ELSE LET d == CHOOSE i \in dots : TRUE
                  IN  NatOf(SubSeq(text, 1, d - 1)) * Scale
                        + FracOf(SubSeq(text, d + 1, Len(text)))

\* float(text) for a text of digits and periods: None stands for ValueError
FloatOf(text) ==
    LET dots == {i \in 1..Len(text) : text[i] = "."}
    IN  IF Len(text) = 0 \/ Cardinality(dots) > 1 \/ Cardinality(dots) = Len(text)
        THEN None
        ELSE IF dots = {}
             THEN NatOf(text) * Scale
             ELSE LET d == CHOOSE i \in dots : TRUE
                  IN  NatOf(SubSeq(text, 1, d - 1)) * Scale
                        + FracOf(SubSeq(text, d + 1, Len(text)))

parse_price_text(text) ==
    IF text = <<>>
    THEN None
    ELSE FloatOf(KeepChars(KeepChars(text, Digits \cup {".", ","}), Digits \cup {"."}))

\* a test "is not None" in the place of the truth test
Truthy_not_none(price) == price # None

\* Python truth value of a price: None and 0.0 are false
Truthy(price) == price # None /\ price # 0

(***************************************************************************)
(* Static Extractor: extract_price_from_soup.                              *)
(* A soup is what the parsed document answers to the extractor's queries:  *)
(*   elems[s]  the texts of the elements soup.select(s) returns, in        *)
(*             document order,                                             *)
(*   bad       the selectors soup.select rejects with an exception,        *)
(*   found[i]  the matches re.findall returns for the i-th price pattern.  *)
(* An extractor returns [price, exc]: exc is TRUE when it raises.          *)
(***************************************************************************)
common_selectors ==
    << ".price", "#price", ".product-price", ".current-price", "[data-price]",
       ".price-current", ".price-now", ".offer-price", ".sale-price", ".final-price" >>

\* the five regular expressions of price_patterns, by position
price_patterns == << "dollar", "usd_prefix", "usd_suffix", "label", "bare" >>

Returned(price) == [price |-> price, exc |-> FALSE]
Raised == [price |-> None, exc |-> TRUE]

\* for element in elements: price = parse(text); if price: return price
RECURSIVE FirstPrice(_)
FirstPrice(texts) ==
    IF texts = <<>> THEN None
    ELSE IF Truthy(parse_price_text(Head(texts)))
         THEN parse_price_text(Head(texts))
         ELSE FirstPrice(Tail(texts))

\* for sel in sels: the first price among the elements soup.select(sel) returns
RECURSIVE FirstPriceOfSelectors(_, _)
FirstPriceOfSelectors(soup, sels) ==
    IF sels = <<>> THEN None
    ELSE IF FirstPrice(soup.elems[Head(sels)]) # None
         THEN FirstPrice(soup.elems[Head(sels)])
         ELSE FirstPriceOfSelectors(soup, Tail(sels))

\* for match in matches: price = parse(match); if price and price > 0: return price
RECURSIVE FirstPositive(_)
FirstPositive(texts) ==
    IF texts = <<>> THEN None
    ELSE IF Truthy(parse_price_text(Head(texts))) /\ parse_price_text(Head(texts)) > 0
         THEN parse_price_text(Head(texts))
         ELSE FirstPositive(Tail(texts))

RECURSIVE FirstPriceOfPatterns(_, _)
FirstPriceOfPatterns(soup, i) ==
    IF i > Len(price_patterns) THEN None
    ELSE IF FirstPositive(soup.found[i]) # None
         THEN FirstPositive(soup.found[i])
         ELSE FirstPriceOfPatterns(soup, i + 1)

\* the static extractor with the common selectors before the custom selector
extract_price_from_soup_common_first(soup, selector) ==
    IF FirstPriceOfSelectors(soup, common_selectors) # None
    THEN Returned(FirstPriceOfSelectors(soup, common_selectors))
    ELSE IF selector # "" /\ selector \in soup.bad
    THEN Raised
    ELSE IF selector # "" /\ FirstPrice(soup.elems[selector]) # None
    THEN Returned(FirstPrice(soup.elems[selector]))
    ELSE Returned(FirstPriceOfPatterns(soup, 1))

extract_price_from_soup(soup, selector) ==
    IF selector # "" /\ selector \in soup.bad
    THEN Raised
    ELSE IF selector # "" /\ FirstPrice(soup.elems[selector]) # None
    THEN Returned(FirstPrice(soup.elems[selector]))
    ELSE IF FirstPriceOfSelectors(soup, common_selectors) # None
    THEN Returned(FirstPriceOfSelectors(soup, common_selectors))
    ELSE Returned(FirstPriceOfPatterns(soup, 1))

(***************************************************************************)
(* Rendered Extractor: get_price_with_playwright.                          *)
(* A dom is what the headless browser answers:                             *)
(*   launch, nav  "ok" or "fail" (chromium.launch, page.goto raise),       *)
(*   q[s]         NoElement when page.query_selector(s) finds no element,  *)
(*                QueryRaises when the query or inner_text raises,         *)
(*                otherwise the inner text of the first matching element.  *)
(* It returns [price, exc, trace]; trace lists the browser operations:     *)
(*   "start"   sync_playwright() is entered: the driver process runs,      *)
(*   "launch"  chromium.launch has opened a browser,                       *)
(*   "goto"    page.goto was called,                                       *)
(*   "close"   browser.close(),                                            *)
(*   "stop"    the with block of sync_playwright() is left: the driver     *)
(*             stops and closes every browser it has launched.             *)
(***************************************************************************)
NoElement == <<"no element">>
QueryRaises == <<"raises">>

playwright_selectors == SubSeq(common_selectors, 1, 7)

\* the selector probes of one page: the first probe whose text parses to a price
RECURSIVE ProbeSelectors(_, _)
ProbeSelectors(dom, sels) ==
    IF sels = <<>> THEN None
    ELSE LET e == dom.q[Head(sels)]
         IN  IF e # NoElement /\ e # QueryRaises /\ Truthy(parse_price_text(e))
             THEN parse_price_text(e)
             ELSE ProbeSelectors(dom, Tail(sels))

\* the rendered extractor without the with block of sync_playwright(): only
\* browser.close() ends a browser
get_price_with_playwright_unscoped(dom, selector) ==
    IF dom.launch = "fail"
    THEN [price |-> None, exc |-> FALSE, trace |-> <<"start">>]
    ELSE IF dom.nav = "fail"
    THEN [price |-> None, exc |-> FALSE, trace |-> <<"start", "launch", "goto">>]
    ELSE LET sels == IF selector # "" THEN <<selector>> \o playwright_selectors
                     ELSE playwright_selectors
         IN  [price |-> ProbeSelectors(dom, sels), exc |-> FALSE,
              trace |-> <<"start", "launch", "goto", "close">>]

get_price_with_playwright(dom, selector) ==
    IF dom.launch = "fail"
    THEN [price |-> None, exc |-> FALSE, trace |-> <<"start", "stop">>]
    ELSE IF dom.nav = "fail"
    THEN [price |-> None, exc |-> FALSE, trace |-> <<"start", "launch", "goto", "stop">>]
    ELSE LET sels == IF selector # "" THEN <<selector>> \o playwright_selectors
                     ELSE playwright_selectors
         IN  [price |-> ProbeSelectors(dom, sels), exc |-> FALSE,
              trace |-> <<"start", "launch", "goto", "close", "stop">>]

(***************************************************************************)
(* Detection Orchestrator: get_price.                                      *)
(* env = [fetch, soup, dom]: fetch is "ok" or "error" (requests.get or     *)
(* raise_for_status raises).  It returns [price, exc, calls]; calls lists  *)
(* the extractors it invoked, in order.                                    *)
(***************************************************************************)
\* get_price with an eager fallback: the rendered extractor runs before the
\* static result is looked at
get_price_eager(env, selector) ==
    IF env.fetch = "error"
    THEN [price |-> None, exc |-> FALSE, calls |-> <<"fetch">>]
    ELSE LET static == extract_price_from_soup(env.soup, selector)
             rendered == get_price_with_playwright(env.dom, selector)
         IN  IF static.exc
             THEN [price |-> None, exc |-> FALSE, calls |-> <<"fetch", "static">>]
             ELSE [price |-> IF Truthy(static.price) THEN static.price ELSE rendered.price,
                   exc |-> FALSE, calls |-> <<"fetch", "static", "rendered">>]

\* get_price without its try/except: an exception of the fetch or of the
\* static extraction leaves the function
get_price_unguarded(env, selector) ==
    IF env.fetch = "error"
    THEN [price |-> None, exc |-> TRUE, calls |-> <<"fetch">>]
    ELSE LET static == extract_price_from_soup(env.soup, selector)
         IN  IF static.exc
             THEN [price |-> None, exc |-> TRUE, calls |-> <<"fetch", "static">>]
             ELSE IF Truthy(static.price)
             THEN [price |-> static.price, exc |-> FALSE, calls |-> <<"fetch", "static">>]
             ELSE LET rendered == get_price_with_playwright(env.dom, selector)
                  IN  [price |-> rendered.price, exc |-> rendered.exc,
                       calls |-> <<"fetch", "static", "rendered">>]

get_price(env, selector) ==
    IF env.fetch = "error"
    THEN [price |-> None, exc |-> FALSE, calls |-> <<"fetch">>]
    ELSE LET static == extract_price_from_soup(env.soup, selector)
         IN  IF static.exc
             THEN [price |-> None, exc |-> FALSE, calls |-> <<"fetch", "static">>]
             ELSE IF Truthy(static.price)
             THEN [price |-> static.price, exc |-> FALSE, calls |-> <<"fetch", "static">>]
             ELSE LET rendered == get_price_with_playwright(env.dom, selector)
                  IN  [price |-> rendered.price, exc |-> rendered.exc,
                       calls |-> <<"fetch", "static", "rendered">>]

(***************************************************************************)
(* Inputs of the model.                                                    *)
(***************************************************************************)
\* text typed into the name, URL and selector entries ("" is an empty entry)
Names == {"A", "B"}
Urls == {"u1", "u2"}
CustomSelector == ".mine"
AllSelectors == {common_selectors[k] : k \in 1..Len(common_selectors)} \cup {CustomSelector}

\* the target price entry: None for an empty entry, Invalid for a text float() rejects
Invalid == -2
Price(n) == n * Scale

\* the interval entry and int() of it: "60" is the initial value, "0" gives an
\* empty wait, int("abc") raises ValueError (Invalid)
IntervalTexts == {"60", "0", "abc"}
IntOf(text) == CASE text = "60" -> 60 [] text = "0" -> 0 [] OTHER -> Invalid

\* a document in which no query finds anything, and a page likewise
EmptySoup == [elems |-> [s \in AllSelectors |-> <<>>], bad |-> {},
              found |-> [k \in 1..Len(price_patterns) |-> <<>>]]
EmptyDom == [launch |-> "ok", nav |-> "ok", q |-> [s \in AllSelectors |-> NoElement]]

\* what the sites answer during a check cycle: the fetch fails, the static page
\* shows a price, only the rendered page shows a price, no price anywhere
CheckEnvs ==
    { [fetch |-> "error", soup |-> EmptySoup, dom |-> EmptyDom],
      [fetch |-> "ok", soup |-> [EmptySoup EXCEPT !.elems[".price"] = << <<"$", "1">> >>],
       dom |-> EmptyDom],
      [fetch |-> "ok", soup |-> EmptySoup,
       dom |-> [EmptyDom EXCEPT !.q[".price"] = <<"$", "2">>]],
      [fetch |-> "ok", soup |-> EmptySoup, dom |-> EmptyDom] }

(***************************************************************************)
(* State.                                                                  *)
(***************************************************************************)
VARIABLES
    products,               \* table products: row k has id k
    price_history,          \* table price_history, in insertion order
    db_lock,                \* the thread whose connection holds the write lock, or 0
    tracking_active,        \* self.tracking_active
    interval_var,           \* self.interval_var
    notify_price_drop,      \* self.notify_price_drop
    notify_target_reached,  \* self.notify_target_reached
    threads,                \* the tracking workers and manual check threads
    clock,                  \* the wall clock
    alerts,                 \* the notifications of the last product check
    detected,               \* the last ad-hoc detection: its inputs and get_price's answer
    parsed                  \* the last call of parse_price_text: its text and its answer

vars == << products, price_history, db_lock, tracking_active, interval_var,
           notify_price_drop, notify_target_reached, threads, clock, alerts,
           detected, parsed >>

Threads == 1..MaxThreads

\* a thread that does not exist
NoThread == [kind |-> "none", pc |-> "dead", rows |-> <<>>, i |-> 0, pending |-> <<>>,
             found |-> {}, errors |-> {}, stop_wait |-> None]

Init ==
    /\ products = <<>>
    /\ price_history = <<>>
    /\ db_lock = 0
    /\ tracking_active = FALSE
    /\ interval_var = "60"
    /\ notify_price_drop = TRUE
    /\ notify_target_reached = TRUE
    /\ threads = [t \in Threads |-> NoThread]
    /\ clock = 0
    /\ alerts = {}
    /\ detected = <<>>
    /\ parsed = <<>>

(***************************************************************************)
(* The store.  Every UI handler opens its own connection, runs its         *)
(* statements and commits within the handler.  A statement that writes     *)
(* needs the write lock: while another connection holds it the statement   *)
(* waits, and raises "database is locked" when sqlite3's timeout expires.  *)
(* The holder of the lock is a check cycle between its first UPDATE and    *)
(* its commit: the wait runs into the timeout when the holder still has a  *)
(* product to fetch (pc "check"), and ends with the commit otherwise.      *)
(***************************************************************************)
\* another connection than that of thread t (0: of a UI handler) holds the write lock
LockedFor(t) == db_lock # 0 /\ db_lock # t

\* a write of thread t (0: of a UI handler) raises "database is locked"
TimesOutFor(t) == LockedFor(t) /\ threads[db_lock].pc = "check"

ProductIds == 1..Len(products)

\* SELECT ... FROM products WHERE active = 1
ActiveIds == {k \in ProductIds : products[k].active}

\* the rows the pending writes of all open transactions will add to price_history
RECURSIVE PendingRows(_)
PendingRows(ts) ==
    IF ts = {} THEN 0
    ELSE LET t == CHOOSE x \in ts : TRUE
         IN  Len(threads[t].pending) + PendingRows(ts \ {t})

HistoryRoom == Len(price_history) + PendingRows(Threads) < MaxHistory

\* the UNIQUE constraint of column url holds for a new row with this url
UrlIsFree(url) == \A k \in ProductIds : products[k].url # url

NewProduct(name, url, target, selector) ==
    [name |-> name, url |-> url, target_price |-> target, selector |-> selector,
     current_price |-> None, last_checked |-> None, active |-> TRUE]

\* what add_product reports to the user
AddOutcome(name, url, target) ==
    IF name = "" \/ url = "" THEN "Please provide both product name and URL"
    ELSE IF target = Invalid THEN "Invalid target price"
    ELSE IF TimesOutFor(0) THEN "Failed to add product"
    ELSE IF ~UrlIsFree(url) THEN "This URL is already being tracked"
    ELSE "Product added successfully!"

add_product(name, url, target, selector) ==
    /\ LockedFor(0) => AddOutcome(name, url, target) # "Product added successfully!"
    /\ IF AddOutcome(name, url, target) = "Product added successfully!"
       THEN products' = Append(products, NewProduct(name, url, target, selector))
       ELSE UNCHANGED products
    /\ UNCHANGED << price_history, db_lock, tracking_active, interval_var,
                    notify_price_drop, notify_target_reached, threads, clock,
                    alerts, detected, parsed >>

\* a delete_product that also deletes the observations of the products it
\* deactivates
delete_product_hard(name) ==
    /\ \E k \in ActiveIds : products[k].name = name
    /\ LockedFor(0) => TimesOutFor(0)
    /\ IF TimesOutFor(0)
       THEN UNCHANGED << products, price_history >>
       ELSE /\ products' = [k \in ProductIds |->
                               IF products[k].name = name
                               THEN [products[k] EXCEPT !.active = FALSE]
                               ELSE products[k]]
            /\ price_history' = SelectSeq(price_history,
                                    LAMBDA r : products[r.product_id].name # name)
    /\ UNCHANGED << db_lock, tracking_active, interval_var,
                    notify_price_drop, notify_target_reached, threads, clock,
                    alerts, detected, parsed >>

\* the selected line of the product list shows the name of an active product;
\* UPDATE products SET active = 0 WHERE name = ?, which raises out of the
\* handler while the write lock is taken
delete_product(name) ==
    /\ \E k \in ActiveIds : products[k].name = name
    /\ LockedFor(0) => TimesOutFor(0)
    /\ IF TimesOutFor(0)
       THEN UNCHANGED products
       ELSE products' = [k \in ProductIds |->
                            IF products[k].name = name
                            THEN [products[k] EXCEPT !.active = FALSE]
                            ELSE products[k]]
    /\ UNCHANGED << price_history, db_lock, tracking_active, interval_var,
                    notify_price_drop, notify_target_reached, threads, clock,
                    alerts, detected, parsed >>

\* a clear_history that also resets the prices of the products
clear_history_with_prices ==
    /\ LockedFor(0) => TimesOutFor(0)
    /\ IF TimesOutFor(0)
       THEN UNCHANGED << price_history, products >>
       ELSE /\ price_history' = <<>>
            /\ products' = [k \in ProductIds |->
                               [products[k] EXCEPT !.current_price = None,
                                                   !.last_checked = None]]
    /\ UNCHANGED << db_lock, tracking_active, interval_var,
                    notify_price_drop, notify_target_reached, threads, clock,
                    alerts, detected, parsed >>

\* DELETE FROM price_history; "Failed to clear history" while the write lock is taken
clear_history ==
    /\ LockedFor(0) => TimesOutFor(0)
    /\ IF TimesOutFor(0)
       THEN UNCHANGED price_history
       ELSE price_history' = <<>>
    /\ UNCHANGED << products, db_lock, tracking_active, interval_var,
                    notify_price_drop, notify_target_reached, threads, clock,
                    alerts, detected, parsed >>

(***************************************************************************)
(* load_price_history: the rows of price_history of the products with the  *)
(* selected name, ORDER BY ph.timestamp DESC.  The timestamp of a row is    *)
(* CURRENT_TIMESTAMP of its INSERT, in whole seconds; SQLite returns rows   *)
(* of equal timestamp in the order of their rowid.  A row of the result is  *)
(* given by its position in price_history.                                  *)
(***************************************************************************)
RECURSIVE OrderByTimestampDesc(_)
OrderByTimestampDesc(rows) ==
    IF rows = {} THEN <<>>
    ELSE LET first == CHOOSE n \in rows :
                          \A m \in rows :
                              \/ price_history[n].timestamp > price_history[m].timestamp
                              \/ /\ price_history[n].timestamp = price_history[m].timestamp
                                 /\ n <= m
         IN  << first >> \o OrderByTimestampDesc(rows \ {first})

\* SELECT ... FROM price_history ph JOIN products p ON ph.product_id = p.id
\* WHERE p.name = ? ORDER BY ph.timestamp DESC
HistoryQuery(name) ==
    OrderByTimestampDesc({n \in 1..Len(price_history) :
                             products[price_history[n].product_id].name = name})

\* the lines of the history list: price and timestamp
load_price_history(name) ==
    [i \in 1..Len(HistoryQuery(name)) |->
        [price |-> price_history[HistoryQuery(name)[i]].price,
         timestamp |-> price_history[HistoryQuery(name)[i]].timestamp]]

(***************************************************************************)
(* The settings and the clock.                                             *)
(***************************************************************************)
SetInterval(text) ==
    /\ text # interval_var
    /\ interval_var' = text
    /\ UNCHANGED << products, price_history, db_lock, tracking_active,
                    notify_price_drop, notify_target_reached, threads, clock, alerts, detected, parsed >>

ToggleNotifyPriceDrop ==
    /\ notify_price_drop' = ~notify_price_drop
    /\ UNCHANGED << products, price_history, db_lock, tracking_active, interval_var,
                    notify_target_reached, threads, clock, alerts, detected, parsed >>

ToggleNotifyTargetReached ==
    /\ notify_target_reached' = ~notify_target_reached
    /\ UNCHANGED << products, price_history, db_lock, tracking_active, interval_var,
                    notify_price_drop, threads, clock, alerts, detected, parsed >>

Tick ==
    /\ clock < MaxClock
    /\ clock' = clock + 1
    /\ UNCHANGED << products, price_history, db_lock, tracking_active, interval_var,
                    notify_price_drop, notify_target_reached, threads, alerts, detected, parsed >>

(***************************************************************************)
(* Threads.  A thread is [kind, pc, rows, i, pending, found, errors,       *)
(* stop_wait]:                                                             *)
(*   kind     "track" (tracking_loop), "manual" (check_thread) or "none",  *)
(*   pc       "while"    tracking_loop tests tracking_active,              *)
(*            "select"   check_all_prices is about to load the products,   *)
(*            "check"    it is in the for loop, at rows[i],                *)
(*            "commit"   it is about to commit,                            *)
(*            "poll"     the wait loop tests tracking_active,              *)
(*            "sleep"    the wait loop is in time.sleep(1),                *)
(*            "recover"  the except branch is in time.sleep(60),           *)
(*            "dead"     the thread has ended or was never started,        *)
(*   rows     the products check_all_prices fetched,                       *)
(*   pending  the writes of its open transaction, applied by commit,       *)
(*   found    the ids of the products of this cycle get_price found a      *)
(*            price for,                                                   *)
(*   errors   the ids of the products of this cycle whose pass of the for  *)
(*            loop ended in its except branch,                             *)
(*   stop_wait  the seconds of waiting the thread has had since a          *)
(*            stop_tracking found it in a wait (None when none did),       *)
(*            counted up to poll_step + 1.                                 *)
(***************************************************************************)
poll_step == 1
recovery_delay == 60

WaitPcs == {"poll", "sleep", "recover"}
CyclePcs == {"select", "check", "commit"}

\* the lowest thread slot that is free
FreeThread == CHOOSE t \in Threads : threads[t].pc = "dead" /\ \A u \in 1..(t - 1) : threads[u].pc # "dead"

Saturated(seconds) == IF seconds > poll_step THEN poll_step + 1 ELSE seconds

\* stop_wait of a thread that goes to sleep for this many seconds
Slept(stop_wait, seconds) ==
    IF stop_wait = None THEN None ELSE Saturated(stop_wait + seconds)

\* the flag, the threads and the message box after start_tracking when it
\* does not test the flag
AfterStart_unguarded ==
    [tracking_active |-> TRUE,
     threads |-> [threads EXCEPT ![FreeThread] =
                      [NoThread EXCEPT !.kind = "track", !.pc = "while"]],
     message |-> "Automatic price tracking started"]

\* the flag, the threads and the message box after start_tracking when it
\* starts no thread
AfterStart_flag_only ==
    IF tracking_active
    THEN [tracking_active |-> tracking_active, threads |-> threads,
          message |-> "Tracking is already active"]
    ELSE [tracking_active |-> TRUE, threads |-> threads,
          message |-> "Automatic price tracking started"]

\* the flag, the threads and the message box after start_tracking
AfterStart ==
    IF tracking_active
    THEN [tracking_active |-> tracking_active, threads |-> threads,
          message |-> "Tracking is already active"]
    ELSE [tracking_active |-> TRUE,
          threads |-> [threads EXCEPT ![FreeThread] =
                           [NoThread EXCEPT !.kind = "track", !.pc = "while"]],
          message |-> "Automatic price tracking started"]

start_tracking ==
    /\ ~tracking_active => \E t \in Threads : threads[t].pc = "dead"
    /\ tracking_active' = AfterStart.tracking_active
    /\ threads' = AfterStart.threads
    /\ UNCHANGED << products, price_history, db_lock, interval_var, notify_price_drop,
                    notify_target_reached, clock, alerts, detected, parsed >>

\* the time a waiting thread still has to sleep when stop_tracking is called
StopWait(th) ==
    IF th.kind = "track" /\ th.pc \in WaitPcs
    THEN CASE th.pc = "poll" -> 0
           [] th.pc = "sleep" -> Saturated(poll_step)
           [] th.pc = "recover" -> Saturated(recovery_delay)
    ELSE th.stop_wait

stop_tracking ==
    /\ tracking_active' = FALSE
    /\ threads' = [t \in Threads |-> [threads[t] EXCEPT !.stop_wait = StopWait(threads[t])]]
    /\ UNCHANGED << products, price_history, db_lock, interval_var, notify_price_drop,
                    notify_target_reached, clock, alerts, detected, parsed >>

check_prices_manual ==
    /\ \E t \in Threads : threads[t].pc = "dead"
    /\ threads' = [threads EXCEPT ![FreeThread] =
                       [NoThread EXCEPT !.kind = "manual", !.pc = "select"]]
    /\ UNCHANGED << products, price_history, db_lock, tracking_active, interval_var,
                    notify_price_drop, notify_target_reached, clock, alerts, detected, parsed >>

(***************************************************************************)
(* tracking_loop.                                                          *)
(***************************************************************************)
\* while self.tracking_active:
LoopTest(t) ==
    /\ threads[t].pc = "while"
    /\ threads' = [threads EXCEPT ![t] =
                       IF tracking_active THEN [@ EXCEPT !.pc = "select"] ELSE NoThread]
    /\ UNCHANGED << products, price_history, db_lock, tracking_active, interval_var,
                    notify_price_drop, notify_target_reached, clock, alerts, detected, parsed >>

\* for _ in range(interval_minutes * 60): if not self.tracking_active: break
PollTest(t) ==
    /\ threads[t].pc = "poll"
    /\ threads' = [threads EXCEPT ![t] =
                       IF tracking_active
                       THEN [@ EXCEPT !.pc = "sleep", !.stop_wait = Slept(@, poll_step)]
                       ELSE [@ EXCEPT !.pc = "while"]]
    /\ UNCHANGED << products, price_history, db_lock, tracking_active, interval_var,
                    notify_price_drop, notify_target_reached, clock, alerts, detected, parsed >>

\* time.sleep(1) returns; the range has another second left (more) or is used up.
\* The seconds of range(interval_minutes * 60) are not counted: a wait of a
\* positive interval sleeps at least once and may end after any sleep.
PollWake(t, more) ==
    /\ threads[t].pc = "sleep"
    /\ threads' = [threads EXCEPT ![t].pc = IF more THEN "poll" ELSE "while"]
    /\ UNCHANGED << products, price_history, db_lock, tracking_active, interval_var,
                    notify_price_drop, notify_target_reached, clock, alerts, detected, parsed >>

\* time.sleep(60) of the except branch returns
RecoverWake(t) ==
    /\ threads[t].pc = "recover"
    /\ threads' = [threads EXCEPT ![t].pc = "while"]
    /\ UNCHANGED << products, price_history, db_lock, tracking_active, interval_var,
                    notify_price_drop, notify_target_reached, clock, alerts, detected, parsed >>

(***************************************************************************)
(* check_all_prices, run by a tracking worker or by a manual check thread. *)
(***************************************************************************)
\* the rows of SELECT id, name, url, selector, current_price, target_price
\* FROM products WHERE active = 1, in id order
RECURSIVE SelectActive(_)
SelectActive(k) ==
    IF k > Len(products) THEN <<>>
    ELSE IF products[k].active
         THEN << [id |-> k, name |-> products[k].name, url |-> products[k].url,
                  selector |-> products[k].selector,
                  old_price |-> products[k].current_price,
                  target_price |-> products[k].target_price] >> \o SelectActive(k + 1)
         ELSE SelectActive(k + 1)

\* an exception leaves check_all_prices and tracking_loop does not catch it
AfterException_uncaught(th) == NoThread

\* an exception leaves check_all_prices: tracking_loop sleeps in its except
\* branch, check_thread reports the error and ends
AfterException(th) ==
    IF th.kind = "track"
    THEN [th EXCEPT !.pc = "recover", !.rows = <<>>, !.i = 0, !.pending = <<>>,
                    !.found = {}, !.errors = {},
                    !.stop_wait = Slept(@, recovery_delay)]
    ELSE NoThread

\* sqlite3.connect and the SELECT; store_ok is FALSE when either raises
Select(t, store_ok) ==
    /\ threads[t].pc = "select"
    /\ IF store_ok
       THEN threads' = [threads EXCEPT ![t] =
                   [@ EXCEPT !.rows = SelectActive(1), !.i = 1, !.pending = <<>>,
                             !.found = {}, !.errors = {},
                             !.pc = IF SelectActive(1) = <<>> THEN "commit" ELSE "check"]]
       ELSE threads' = [threads EXCEPT ![t] = AfterException(@)]
    /\ UNCHANGED << products, price_history, db_lock, tracking_active, interval_var,
                    notify_price_drop, notify_target_reached, clock, alerts, detected, parsed >>

\* the notifications of one successful check when the price-drop setting is not read
Notifications_unfiltered(old_price, new_price, target_price) ==
    (IF Truthy(old_price) /\ new_price < old_price
     THEN {"price drop"} ELSE {})
    \cup
    (IF Truthy(target_price) /\ new_price <= target_price /\ notify_target_reached
     THEN {"target reached"} ELSE {})

\* the notifications of one successful check when the target is compared after
\* the price-drop test, and only when that found no drop
Notifications_exclusive(old_price, new_price, target_price) ==
    IF Truthy(old_price) /\ new_price < old_price /\ notify_price_drop
    THEN {"price drop"}
    ELSE IF Truthy(target_price) /\ new_price <= target_price /\ notify_target_reached
    THEN {"target reached"}
    ELSE {}

\* the notifications of one successful check
Notifications(old_price, new_price, target_price) ==
    (IF Truthy(old_price) /\ new_price < old_price /\ notify_price_drop
     THEN {"price drop"} ELSE {})
    \cup
    (IF Truthy(target_price) /\ new_price <= target_price /\ notify_target_reached
     THEN {"target reached"} ELSE {})

\* one pass of the for loop without the test "if new_price:"
Check_unconditional(t, env) ==
    LET th == threads[t]
        row == th.rows[th.i]
        new_price == get_price(env, row.selector).price
        next_pc == IF th.i = Len(th.rows) THEN "commit" ELSE "check"
    IN  /\ th.pc = "check"
        /\ IF ~LockedFor(t)
           THEN /\ HistoryRoom
                /\ db_lock' = t
                /\ threads' = [threads EXCEPT ![t] =
                       [@ EXCEPT !.i = @ + 1, !.pc = next_pc,
                                 !.found = IF Truthy(new_price) THEN @ \cup {row.id} ELSE @,
                                 !.pending = Append(@, [id |-> row.id, price |-> new_price,
                                                        time |-> clock])]]
                /\ alerts' = {}
           ELSE /\ TimesOutFor(t)
                /\ threads' = [threads EXCEPT ![t] =
                       [@ EXCEPT !.i = @ + 1, !.pc = next_pc,
                                 !.errors = @ \cup {row.id}]]
                /\ alerts' = {}
                /\ UNCHANGED db_lock
        /\ UNCHANGED << products, price_history, tracking_active, interval_var,
                        notify_price_drop, notify_target_reached, clock, detected, parsed >>

\* one pass of the for loop: get_price for rows[i], then the UPDATE and the
\* INSERT of a found price.  While another connection holds the write lock
\* the UPDATE waits; when it raises "database is locked", the except of the
\* loop body catches that and the loop goes on.
Check(t, env) ==
    LET th == threads[t]
        row == th.rows[th.i]
        new_price == get_price(env, row.selector).price
        next_pc == IF th.i = Len(th.rows) THEN "commit" ELSE "check"
    IN  /\ th.pc = "check"
        /\ IF ~Truthy(new_price)
           THEN /\ threads' = [threads EXCEPT ![t] = [@ EXCEPT !.i = @ + 1, !.pc = next_pc]]
                /\ alerts' = {}
                /\ UNCHANGED db_lock
           ELSE IF ~LockedFor(t)
           THEN /\ HistoryRoom
                /\ db_lock' = t
                /\ threads' = [threads EXCEPT ![t] =
                       [@ EXCEPT !.i = @ + 1, !.pc = next_pc,
                                 !.found = @ \cup {row.id},
                                 !.pending = Append(@, [id |-> row.id, price |-> new_price,
                                                        time |-> clock])]]
                /\ alerts' = Notifications(row.old_price, new_price, row.target_price)
           ELSE /\ TimesOutFor(t)
                /\ threads' = [threads EXCEPT ![t] =
                       [@ EXCEPT !.i = @ + 1, !.pc = next_pc, !.found = @ \cup {row.id},
                                 !.errors = @ \cup {row.id}]]
                /\ alerts' = {}
                /\ UNCHANGED db_lock
        /\ UNCHANGED << products, price_history, tracking_active, interval_var,
                        notify_price_drop, notify_target_reached, clock, detected, parsed >>

\* the table products after the UPDATEs of a transaction
RECURSIVE ApplyUpdates(_, _)
ApplyUpdates(table, writes) ==
    IF writes = <<>> THEN table
    ELSE LET w == Head(writes)
         IN  ApplyUpdates([table EXCEPT ![w.id].current_price = w.price,
                                        ![w.id].last_checked = w.time],
                          Tail(writes))

\* the rows the INSERTs of a transaction add to price_history
RECURSIVE InsertedRows(_)
InsertedRows(writes) ==
    IF writes = <<>> THEN <<>>
    ELSE << [product_id |-> Head(writes).id, price |-> Head(writes).price,
             timestamp |-> Head(writes).time] >> \o InsertedRows(Tail(writes))

\* the wait of tracking_loop after a cycle: int(self.interval_var.get()) raises,
\* or range(interval_minutes * 60) is empty, or the wait loop starts
AfterCycle(th) ==
    IF IntOf(interval_var) = Invalid
    THEN AfterException(th)
    ELSE [th EXCEPT !.pc = IF IntOf(interval_var) * 60 > 0 THEN "poll" ELSE "while",
                    !.rows = <<>>, !.i = 0, !.pending = <<>>, !.found = {},
                    !.errors = {}]

\* a commit that records an observation only for a price that differs from
\* the current price of the product
Commit_changed_only(t) ==
    /\ threads[t].pc = "commit"
    /\ products' = ApplyUpdates(products, threads[t].pending)
    /\ price_history' = price_history \o
           SelectSeq(InsertedRows(threads[t].pending),
                     LAMBDA r : products[r.product_id].current_price # r.price)
    /\ db_lock' = IF db_lock = t THEN 0 ELSE db_lock
    /\ threads' = [threads EXCEPT ![t] =
                       IF @.kind = "track" THEN AfterCycle(@) ELSE NoThread]
    /\ UNCHANGED << tracking_active, interval_var, notify_price_drop,
                    notify_target_reached, clock, alerts, detected, parsed >>

\* conn.commit() and conn.close(); then check_thread reports and ends, and
\* tracking_loop goes on to its wait
Commit(t) ==
    /\ threads[t].pc = "commit"
    /\ products' = ApplyUpdates(products, threads[t].pending)
    /\ price_history' = price_history \o InsertedRows(threads[t].pending)
    /\ db_lock' = IF db_lock = t THEN 0 ELSE db_lock
    /\ threads' = [threads EXCEPT ![t] =
                       IF @.kind = "track" THEN AfterCycle(@) ELSE NoThread]
    /\ UNCHANGED << tracking_active, interval_var, notify_price_drop,
                    notify_target_reached, clock, alerts, detected, parsed >>

(***************************************************************************)
(* test_price_detection: an ad-hoc call of get_price, one at a time; its   *)
(* answer stays on display until the user closes the message box.          *)
(***************************************************************************)
test_price_detection(url, selector, env) ==
    /\ detected = <<>>
    /\ IF url = ""
       THEN UNCHANGED detected
       ELSE detected' = << [url |-> url, selector |-> selector, env |-> env,
                            out |-> get_price(env, selector)] >>
    /\ UNCHANGED << products, price_history, db_lock, tracking_active, interval_var,
                    notify_price_drop, notify_target_reached, threads, clock, alerts, parsed >>

\* a call of parse_price_text on its own, one at a time
ParsePriceText(text) ==
    /\ parsed = <<>>
    /\ parsed' = << [text |-> text, price |-> parse_price_text(text)] >>
    /\ UNCHANGED << products, price_history, db_lock, tracking_active, interval_var,
                    notify_price_drop, notify_target_reached, threads, clock, alerts,
                    detected >>

ForgetParsed ==
    /\ parsed # <<>>
    /\ parsed' = <<>>
    /\ UNCHANGED << products, price_history, db_lock, tracking_active, interval_var,
                    notify_price_drop, notify_target_reached, threads, clock, alerts,
                    detected >>

CloseDetectionMessage ==
    /\ detected # <<>>
    /\ detected' = <<>>
    /\ UNCHANGED << products, price_history, db_lock, tracking_active, interval_var,
                    notify_price_drop, notify_target_reached, threads, clock, alerts, parsed >>

(***************************************************************************)
(* Specifications.                                                         *)
(***************************************************************************)
\* what the sites answer to an ad-hoc detection
Absent == <<"a", "b", "c">>
Zero == <<"0">>
OneDollar == <<"$", "1">>
TwoDollars == <<"$", "2">>

ElementLists == {<<>>, <<Absent>>, <<Zero, OneDollar>>, <<TwoDollars>>}
ElementTexts == {NoElement, QueryRaises, Absent, TwoDollars}

DetectSoups ==
    { [EmptySoup EXCEPT !.elems[CustomSelector] = mine, !.elems[".price"] = price,
                        !.found[1] = dollar, !.bad = bad] :
        mine \in ElementLists, price \in ElementLists, dollar \in ElementLists,
        bad \in {{}, {CustomSelector}} }

DetectDoms ==
    { [launch |-> launch, nav |-> nav,
       q |-> [EmptyDom.q EXCEPT ![CustomSelector] = mine, ![".price"] = price]] :
        launch \in {"ok", "fail"}, nav \in {"ok", "fail"},
        mine \in ElementTexts, price \in ElementTexts }

DetectEnvs ==
    { [fetch |-> fetch, soup |-> soup, dom |-> dom] :
        fetch \in {"ok", "error"}, soup \in DetectSoups, dom \in DetectDoms }

\* what the user types into the add-product form
TargetEntries == {None, Invalid}

AddProduct(urls) ==
    \E name \in {"A", ""}, url \in urls \cup {""}, target \in TargetEntries :
        add_product(name, url, target, "")

DeleteProduct == \E name \in Names : delete_product(name)

ChangeInterval == \E text \in IntervalTexts : SetInterval(text)

TrackingLoop ==
    \E t \in Threads :
        \/ LoopTest(t)
        \/ PollTest(t)
        \/ \E more \in BOOLEAN : PollWake(t, more)
        \/ RecoverWake(t)

CheckAllPrices ==
    \E t \in Threads :
        \/ \E store_ok \in BOOLEAN : Select(t, store_ok)
        \/ \E env \in CheckEnvs : Check(t, env)
        \/ Commit(t)

TestPriceDetection ==
    /\ detected = <<>>
    /\ \E url \in {"u1", ""}, selector \in {"", CustomSelector}, env \in DetectEnvs :
           test_price_detection(url, selector, env)

\* the tracking scheduler: one product, tracking workers and manual checks
Next ==
    \/ AddProduct({"u1"})
    \/ DeleteProduct
    \/ clear_history
    \/ ChangeInterval
    \/ start_tracking
    \/ stop_tracking
    \/ check_prices_manual
    \/ TrackingLoop
    \/ CheckAllPrices

Spec == Init /\ [][Next]_vars

\* the store: two products and manual checks
NextManual ==
    \/ AddProduct(Urls)
    \/ DeleteProduct
    \/ clear_history
    \/ check_prices_manual
    \/ CheckAllPrices

SpecManual == Init /\ [][NextManual]_vars

\* the tracking session: one product whose site does not answer, and tracking
\* workers that wait the initial interval
UnreachableEnvs == {env \in CheckEnvs : env.fetch = "error"}

CheckUnreachable ==
    \E t \in Threads :
        \/ \E store_ok \in BOOLEAN : Select(t, store_ok)
        \/ \E env \in UnreachableEnvs : Check(t, env)
        \/ Commit(t)

NextTrack ==
    \/ AddProduct({"u1"})
    \/ start_tracking
    \/ stop_tracking
    \/ TrackingLoop
    \/ CheckUnreachable

SpecTrack == Init /\ [][NextTrack]_vars

\* the steps of the thread in slot t; the thread runs as long as it has a step
ThreadStep(t) ==
    \/ LoopTest(t)
    \/ PollTest(t)
    \/ \E more \in BOOLEAN : PollWake(t, more)
    \/ RecoverWake(t)
    \/ \E store_ok \in BOOLEAN : Select(t, store_ok)
    \/ \E env \in UnreachableEnvs : Check(t, env)
    \/ Commit(t)

SpecTrackFair == SpecTrack /\ \A t \in Threads : WF_vars(ThreadStep(t))

\* the observations: one product whose site shows a price, a price with a
\* minus sign, or a price of zero (in the static page, or in the rendered one)
SignedEnvs ==
    { [fetch |-> "ok", soup |-> [EmptySoup EXCEPT !.elems[".price"] = << text >>],
       dom |-> EmptyDom] : text \in {<<"$", "1">>, <<"-", "2">>, <<"0">>} }
    \cup
    { [fetch |-> "ok", soup |-> EmptySoup,
       dom |-> [EmptyDom EXCEPT !.q[".price"] = <<"0", ".", "0">>]] }

CheckSigned ==
    \E t \in Threads :
        \/ \E store_ok \in BOOLEAN : Select(t, store_ok)
        \/ \E env \in SignedEnvs : Check(t, env)
        \/ Commit(t)

NextObserve ==
    \/ AddProduct({"u1"})
    \/ DeleteProduct
    \/ clear_history
    \/ check_prices_manual
    \/ CheckSigned

SpecObserve == Init /\ [][NextObserve]_vars

\* clearing the history: two products whose sites show a price, and a store
\* that answers
PricedEnvs == {env \in CheckEnvs : env.fetch = "ok" /\ env.soup # EmptySoup}

CheckPriced ==
    \E t \in Threads :
        \/ Select(t, TRUE)
        \/ \E env \in PricedEnvs : Check(t, env)
        \/ Commit(t)

NextClear ==
    \/ AddProduct(Urls)
    \/ DeleteProduct
    \/ clear_history
    \/ check_prices_manual
    \/ CheckPriced

SpecClear == Init /\ [][NextClear]_vars

\* the check cycle: one product, the clock and manual checks
NextCycle ==
    \/ AddProduct({"u1"})
    \/ Tick
    \/ check_prices_manual
    \/ CheckAllPrices

SpecCycle == Init /\ [][NextCycle]_vars

\* the notifications: one product with a target price, the notification
\* settings and manual checks
TargetPrices == {None, Price(0), Price(1)}

AddTargetedProduct == \E target \in TargetPrices : add_product("A", "u1", target, "")

ChangeNotifications == ToggleNotifyPriceDrop \/ ToggleNotifyTargetReached

NextNotify ==
    \/ AddTargetedProduct
    \/ ChangeNotifications
    \/ check_prices_manual
    \/ CheckAllPrices

SpecNotify == Init /\ [][NextNotify]_vars

\* the price parser: the texts of up to MaxText characters of a currency sign,
\* a letter, two digits, period, comma and blank
TextChars == {"$", "a", "0", "1", ".", ",", " "}

Texts == UNION {[1..n -> TextChars] : n \in 0..MaxText}

ParseSomeText ==
    /\ parsed = <<>>
    /\ \E text \in Texts : ParsePriceText(text)

NextParse ==
    \/ ParseSomeText
    \/ ForgetParsed

SpecParse == Init /\ [][NextParse]_vars

\* the static extractor: ad-hoc detections on static pages that answer the
\* custom selector, the first two common selectors and the first two patterns
StaticSoups ==
    { [EmptySoup EXCEPT !.elems[CustomSelector] = mine, !.elems[".price"] = price,
                        !.elems["#price"] = id_price,
                        !.found[1] = dollar, !.found[2] = usd, !.bad = bad] :
        mine \in ElementLists, price \in ElementLists, id_price \in ElementLists,
        dollar \in ElementLists, usd \in ElementLists,
        bad \in {{}, {CustomSelector}} }

StaticEnvs == { [fetch |-> "ok", soup |-> soup, dom |-> EmptyDom] : soup \in StaticSoups }

TestStaticExtraction ==
    /\ detected = <<>>
    /\ \E selector \in {"", CustomSelector}, env \in StaticEnvs :
           test_price_detection("u1", selector, env)

NextExtract ==
    \/ TestStaticExtraction
    \/ CloseDetectionMessage

SpecExtract == Init /\ [][NextExtract]_vars

\* update and observation: two products whose sites show one of two prices,
\* a store that answers, and manual checks
FoundEnvs == {env \in CheckEnvs : get_price(env, "").price # None}

CheckFound ==
    \E t \in Threads :
        \/ Select(t, TRUE)
        \/ \E env \in FoundEnvs : Check(t, env)
        \/ Commit(t)

NextPair ==
    \/ AddProduct(Urls)
    \/ check_prices_manual
    \/ CheckFound

SpecPair == Init /\ [][NextPair]_vars

\* the detection engine: ad-hoc detections
NextDetect ==
    \/ TestPriceDetection
    \/ CloseDetectionMessage

SpecDetect == Init /\ [][NextDetect]_vars

(***************************************************************************)
(* Properties.                                                             *)
(***************************************************************************)
UrlUsed(url) == \E k \in ProductIds : products[k].url = url
UrlActive(url) == \E k \in ActiveIds : products[k].url = url

\* C1: a URL that only deactivated products have can be added again: the add
\* is accepted whenever the store takes the write.
C1_DeactivatedUrlCanBeAddedAgain ==
    \A url \in Urls :
        (UrlUsed(url) /\ ~UrlActive(url) /\ ~LockedFor(0))
            => AddOutcome("A", url, None) = "Product added successfully!"

\* C2: adding the URL of an active product fails with the duplicate-URL error,
\* and no two active products share a URL.
C2_ActiveUrlIsRejectedAsDuplicate ==
    /\ \A url \in Urls :
            UrlActive(url) => AddOutcome("A", url, None) = "This URL is already being tracked"
    /\ \A j \in ActiveIds, k \in ActiveIds : j # k => products[j].url # products[k].url

\* the threads that are inside check_all_prices
InCycle == {t \in Threads : threads[t].pc \in CyclePcs}

\* C3: check cycles are serialized: at most one thread, manual or scheduled,
\* is inside a check cycle.
C3_OneCheckCycleAtATime == Cardinality(InCycle) <= 1

\* C4: at most one tracking worker runs check cycles: no two threads of the
\* tracking loop are inside a check cycle at once.
C4_OneTrackingWorker ==
    Cardinality({t \in InCycle : threads[t].kind = "track"}) <= 1

\* C5: a tracking loop that stop() found in a wait waits no longer than one
\* poll step from then on and starts no further check cycle.
C5_StopEndsTheWaitWithinOnePollStep ==
    \A t \in Threads :
        threads[t].stop_wait # None
            => threads[t].stop_wait <= poll_step /\ threads[t].pc \notin CyclePcs

\* the last ad-hoc detection and what the two extractors yield for its inputs
Detection == detected[1]
StaticOf(d) == extract_price_from_soup(d.env.soup, d.selector)
StaticResult(d) ==
    IF d.env.fetch = "error" \/ StaticOf(d).exc THEN None ELSE StaticOf(d).price
RenderedResult(d) == get_price_with_playwright(d.env.dom, d.selector).price
Called(d, extractor) == \E k \in 1..Len(d.out.calls) : d.out.calls[k] = extractor

\* C6: when the static fetch fails, get_price invokes the rendered extractor
\* and returns its result.
C6_FetchErrorFallsBackToRendered ==
    (detected # <<>> /\ Detection.env.fetch = "error")
        => Called(Detection, "rendered") /\ Detection.out.price = RenderedResult(Detection)

\* C7: the rendered extractor is invoked only after the static extractor of the
\* same call has returned absent; it is never invoked when that returned a value.
C7_RenderedOnlyAfterStaticAbsent ==
    detected # <<>> =>
        LET d == Detection
        IN  /\ StaticResult(d) # None => ~Called(d, "rendered")
            /\ \A k \in 1..Len(d.out.calls) :
                   d.out.calls[k] = "rendered"
                       => /\ \E j \in 1..(k - 1) : d.out.calls[j] = "static"
                          /\ d.env.fetch = "ok"
                          /\ ~StaticOf(d).exc
                          /\ StaticOf(d).price = None

\* witness of C7: a detection whose static extractor returned a value
C7_StaticValueReturned ==
    /\ detected # <<>>
    /\ StaticResult(Detection) # None
    /\ Detection.out.price = StaticResult(Detection)
    /\ Detection.out.calls = <<"fetch", "static">>

\* C8: get_price returns the static result when it is not absent, otherwise the
\* rendered result.
C8_StaticElseRendered ==
    detected # <<>> =>
        Detection.out.price = IF StaticResult(Detection) # None
                              THEN StaticResult(Detection)
                              ELSE RenderedResult(Detection)

\* an extraction failure ended the static or the rendered path of the detection
ExtractionFailed(d) ==
    \/ d.env.fetch = "error"
    \/ StaticOf(d).exc
    \/ StaticOf(d).price = None /\ (d.env.dom.launch = "fail" \/ d.env.dom.nav = "fail")

\* C9: get_price never raises, and a fetch, selector, launch or navigation
\* failure that ends a path of the extraction gives an absent result.
C9_ExtractionFailuresGiveAbsent ==
    detected # <<>> =>
        /\ ~Detection.out.exc
        /\ ExtractionFailed(Detection) => Detection.out.price = None

\* witness of C9: a detection whose static fetch failed
C9_FetchFailedAndAbsentReturned ==
    /\ detected # <<>>
    /\ Detection.env.fetch = "error"
    /\ ~Detection.out.exc
    /\ Detection.out.price = None

\* the ids of the products a thread has written in its open transaction
Written(t) == {threads[t].pending[k].id : k \in 1..Len(threads[t].pending)}

\* C10: a cycle that reaches its commit has checked every product it loaded,
\* and has updated every product for which the detection found a price.
C10_CycleUpdatesEveryFoundProduct ==
    \A t \in Threads :
        threads[t].pc = "commit"
            => /\ threads[t].i = Len(threads[t].rows) + 1
               /\ threads[t].found \subseteq Written(t)

\* the ids of the products a thread has been through in its for loop
Checked(t) == {threads[t].rows[k].id : k \in 1..(threads[t].i - 1)}

\* the products whose check by the thread failed: no price was detected, or
\* the pass of the for loop ended in its except branch
FailedChecks(t) ==
    {id \in Checked(t) : id \notin threads[t].found \/ id \in threads[t].errors}

\* the thread that commits in this step
Committing(t) == threads[t].pc = "commit" /\ threads'[t].pc # "commit"

SuccessfulCheck(t) ==
    /\ threads[t].pc = "check"
    /\ Len(threads'[t].pending) = Len(threads[t].pending) + 1

\* the product row the pass is about: it holds the old price and the target
\* the cycle has loaded for the product; and the price the pass has found
CheckedRow(t) == threads[t].rows[threads[t].i]
NewPrice(t) == threads'[t].pending[Len(threads'[t].pending)].price

\* C12: a successful check emits a price-drop event if and only if the old
\* price of the product is present, the new price is lower than the old price,
\* and the price-drop notification is enabled.
C12_PriceDropEvent ==
    [][ \A t \in Threads :
            SuccessfulCheck(t)
                => ("price drop" \in alerts'
                       <=> /\ CheckedRow(t).old_price # None
                           /\ NewPrice(t) < CheckedRow(t).old_price
                           /\ notify_price_drop) ]_vars

\* the last write of the open transaction of a thread, with the row it is for
LastWrite(t) == threads[t].pending[Len(threads[t].pending)]
LastRow(t) == threads[t].rows[threads[t].i - 1]

\* witness of C12: a check has found a price below the old price of the product
\* and the price-drop event is out
C12_PriceDropEmitted ==
    /\ "price drop" \in alerts
    /\ \E t \in Threads :
           /\ threads[t].pc = "commit"
           /\ threads[t].pending # <<>>
           /\ LastRow(t).id = LastWrite(t).id
           /\ LastRow(t).old_price # None
           /\ LastWrite(t).price < LastRow(t).old_price

\* C13: a successful check emits a target-reached event if and only if the
\* product has a target price, the new price is not above it, and the
\* target-reached notification is enabled; whether a price-drop event is
\* emitted for the same check has no influence, and both can be emitted.
C13_TargetReachedEvent ==
    [][ \A t \in Threads :
            SuccessfulCheck(t)
                => ("target reached" \in alerts'
                       <=> /\ CheckedRow(t).target_price # None
                           /\ NewPrice(t) <= CheckedRow(t).target_price
                           /\ notify_target_reached) ]_vars

\* witness of C13: one check has emitted both events
C13_BothEventsEmitted ==
    /\ alerts = {"price drop", "target reached"}
    /\ \E t \in Threads :
           /\ threads[t].pc = "commit"
           /\ threads[t].pending # <<>>
           /\ LastRow(t).id = LastWrite(t).id
           /\ LastRow(t).target_price # None
           /\ LastWrite(t).price <= LastRow(t).target_price

\* the tracking workers among these threads
Workers(ths) == {t \in Threads : ths[t].kind = "track"}

\* C14: start_tracking of an idle session sets it running with one more
\* worker; start_tracking of a running session reports that tracking is
\* already active, creates no worker and changes neither the flag nor a thread.
C14_StartOnlyFromIdle ==
    /\ tracking_active
          => /\ AfterStart.message = "Tracking is already active"
             /\ AfterStart.tracking_active = tracking_active
             /\ AfterStart.threads = threads
    /\ (~tracking_active /\ \E t \in Threads : threads[t].pc = "dead")
          => /\ AfterStart.tracking_active
             /\ \E t \in Threads \ Workers(threads) :
                    /\ Workers(AfterStart.threads) = Workers(threads) \cup {t}
                    /\ AfterStart.threads[t].pc = "while"
                    /\ \A u \in Threads \ {t} : AfterStart.threads[u] = threads[u]

\* witness of C14: a running session whose worker is in a check cycle, and a
\* free thread slot a further start could use
C14_RunningWithFreeSlot ==
    /\ tracking_active
    /\ \E t \in Threads : threads[t].kind = "track" /\ threads[t].pc \in CyclePcs
    /\ \E t \in Threads : threads[t].pc = "dead"

\* the interval entry is not a positive number
InvalidInterval == IntOf(interval_var) = Invalid \/ IntOf(interval_var) <= 0

\* C15: a tracking worker that reads an interval entry that is not a positive
\* number ends the session: tracking is inactive after that step.
C15_InvalidIntervalEndsSession ==
    [][ \A t \in Threads :
            (threads[t].kind = "track" /\ Committing(t) /\ InvalidInterval)
                => ~tracking_active' ]_vars

\* the check cycle of the thread fails as a whole in this step: the store
\* does not answer
CycleFails(t) == threads[t].pc = "select" /\ threads'[t].pc \notin CyclePcs

\* C16: a tracking worker whose check cycle fails as a whole does not end: it
\* goes into the sleep of the recovery delay, not into the wait of the
\* interval, and it ends only when it finds tracking inactive at the test of
\* its loop; from the recovery sleep it comes to another cycle unless
\* tracking has become inactive.
C16_FailedCycleIsRetried ==
    /\ [][ \A t \in Threads :
               threads[t].kind = "track"
                   => /\ CycleFails(t) => threads'[t].pc = "recover"
                      /\ threads[t].pc = "recover" => threads'[t].pc \in {"recover", "while"}
                      /\ threads'[t].pc = "dead"
                             => threads[t].pc = "while" /\ ~tracking_active ]_vars
    /\ \A t \in Threads :
           (threads[t].kind = "track" /\ threads[t].pc = "recover")
               ~> (threads[t].pc = "select" \/ ~tracking_active)

\* witness of C16: a worker of the running session sleeps the recovery delay
C16_WorkerInRecoverySleep ==
    /\ tracking_active
    /\ \E t \in Threads : threads[t].kind = "track" /\ threads[t].pc = "recover"

\* C17: the session can be started again after every stop: each step that
\* sets tracking active, the first or a later one, starts a worker at the
\* test of its loop, whatever workers of earlier sessions still exist, and
\* that worker comes to a check cycle unless tracking is stopped again.
C17_RestartRunsACycle ==
    /\ [][ (~tracking_active /\ tracking_active')
               => \E t \in Threads :
                      /\ threads[t].pc = "dead"
                      /\ threads'[t].kind = "track"
                      /\ threads'[t].pc = "while"
                      /\ \A u \in Threads \ {t} : threads'[u] = threads[u] ]_vars
    /\ \A t \in Threads :
           (threads[t].kind = "track" /\ threads[t].pc = "while" /\ tracking_active)
               ~> (threads[t].pc = "select" \/ ~tracking_active)

\* witness of C17: the session was stopped while its worker waited and was
\* started again: the worker of the new session is in a check cycle while the
\* worker of the stopped one still exists
C17_RestartedWorkerInCycle ==
    /\ tracking_active
    /\ \E t \in Threads, u \in Threads :
           /\ t # u
           /\ threads[t].kind = "track" /\ threads[t].stop_wait # None
           /\ threads[u].kind = "track" /\ threads[u].stop_wait = None
           /\ threads[u].pc \in CyclePcs

\* a browser is open after these browser operations
RECURSIVE BrowserOpen(_)
BrowserOpen(trace) ==
    IF trace = <<>> THEN FALSE
    ELSE LET op == trace[Len(trace)]
         IN  CASE op = "launch" -> TRUE
               [] op \in {"close", "stop"} -> FALSE
               [] OTHER -> BrowserOpen(SubSeq(trace, 1, Len(trace) - 1))

RenderedTrace(d) == get_price_with_playwright(d.env.dom, d.selector).trace

\* C18: when a detection has called the rendered extractor, no browser that
\* call has opened is open after its return: whether a price was found, no
\* selector matched, a query raised or the navigation failed.
C18_BrowserClosedOnReturn ==
    (detected # <<>> /\ Called(Detection, "rendered"))
        => ~BrowserOpen(RenderedTrace(Detection))

\* witness of C18: the rendered extractor has launched a browser and the
\* navigation has failed, so that the call has passed no browser.close()
C18_NavigationFailedAfterLaunch ==
    /\ detected # <<>>
    /\ Called(Detection, "rendered")
    /\ Detection.env.dom.launch = "ok"
    /\ Detection.env.dom.nav = "fail"
    /\ \E k \in 1..Len(RenderedTrace(Detection)) : RenderedTrace(Detection)[k] = "launch"
    /\ \A k \in 1..Len(RenderedTrace(Detection)) : RenderedTrace(Detection)[k] # "close"

\* C19: every observation in the price history has a price above zero.
C19_ObservationsArePositive ==
    \A n \in 1..Len(price_history) : price_history[n].price > 0

\* witness of C19: the history holds the observation of a price that was
\* shown with a minus sign, and a cycle has found a price of zero and has
\* written nothing for it
C19_SignAndZeroSeen ==
    /\ \E n \in 1..Len(price_history) : price_history[n].price = Price(2)
    /\ \E t \in Threads :
           /\ threads[t].pc = "commit"
           /\ threads[t].errors = {}
           /\ Checked(t) # {}
           /\ threads[t].found = {}
           /\ threads[t].pending = <<>>

\* C20: a step that removes an observation from the price history removes
\* all of them, those of every product, and changes no product row.
C20_ClearRemovesAllAndKeepsProducts ==
    [][ (\/ Len(price_history') < Len(price_history)
         \/ \E n \in 1..Len(price_history) :
                n <= Len(price_history') /\ price_history'[n] # price_history[n])
            => price_history' = <<>> /\ products' = products ]_vars

\* witness of C20: the history is empty and two products keep the price and
\* the time of a check, so the observations those checks wrote have been
\* cleared; one of the products is deactivated
C20_ClearedWithPricedProducts ==
    /\ price_history = <<>>
    /\ \E j \in ProductIds, k \in ProductIds :
           /\ j # k
           /\ products[j].current_price # None /\ products[j].last_checked # None
           /\ products[k].current_price # None /\ products[k].last_checked # None
           /\ ~products[j].active

\* a product is deactivated in this step
Deactivated(k) == products[k].active /\ ~products'[k].active

\* C21: a step that deactivates a product deletes no observation: the price
\* history is the same before and after it.
C21_DeleteKeepsObservations ==
    [][ (\E k \in ProductIds : Deactivated(k)) => price_history' = price_history ]_vars

\* witness of C21: the history holds an observation of a deactivated product
C21_ObservationOfDeactivatedProduct ==
    \E n \in 1..Len(price_history) : ~products[price_history[n].product_id].active

\* C22: the history query returns the observations newest first: of two rows
\* of the result, the one that was appended later comes earlier.
C22_HistoryNewestFirst ==
    \A name \in Names :
        \A i \in 1..Len(HistoryQuery(name)), j \in 1..Len(HistoryQuery(name)) :
            i < j => HistoryQuery(name)[i] > HistoryQuery(name)[j]

\* the text of the last call of the parser, and what is left of it when every
\* character but digits, periods and commas, and then every comma, is removed
ParsedText == parsed[1].text
Cleaned(text) == SelectSeq(text, LAMBDA c : c \in Digits \cup {"."})

\* a decimal: digits with at most one period among them, and at least one digit
IsDecimal(text) ==
    /\ \E i \in 1..Len(text) : text[i] \in Digits
    /\ \A i \in 1..Len(text), j \in 1..Len(text) : (text[i] = "." /\ text[j] = ".") => i = j

\* C23: the parser returns absent for the empty text, for every text without
\* a digit, and for every text that is not a decimal after the removal of
\* the characters other than digits and periods.
C23_ParserReturnsAbsent ==
    parsed # <<>> =>
        /\ ParsedText = <<>> => parsed[1].price = None
        /\ (\A i \in 1..Len(ParsedText) : ParsedText[i] \notin Digits)
               => parsed[1].price = None
        /\ ~IsDecimal(Cleaned(ParsedText)) => parsed[1].price = None

\* witness of C23: a text that has a digit and is no decimal was parsed
C23_DigitsButNoDecimal ==
    /\ parsed # <<>>
    /\ \E i \in 1..Len(ParsedText) : ParsedText[i] \in Digits
    /\ ~IsDecimal(Cleaned(ParsedText))
    /\ parsed[1].price = None

\* the texts the strategies of the static extractor look at, in their order:
\* the elements of the custom selector, those of each common selector, the
\* matches of each pattern
RECURSIVE ElementsOf(_, _)
ElementsOf(soup, sels) ==
    IF sels = <<>> THEN <<>>
    ELSE soup.elems[Head(sels)] \o ElementsOf(soup, Tail(sels))

RECURSIVE MatchesFrom(_, _)
MatchesFrom(soup, i) ==
    IF i > Len(price_patterns) THEN <<>>
    ELSE soup.found[i] \o MatchesFrom(soup, i + 1)

Candidates(soup, selector) ==
    (IF selector # "" THEN soup.elems[selector] ELSE <<>>)
        \o ElementsOf(soup, common_selectors) \o MatchesFrom(soup, 1)

\* the price of the first of these texts that parses to a price above zero
FirstValid(texts) ==
    LET valid == {i \in 1..Len(texts) :
                     parse_price_text(texts[i]) # None /\ parse_price_text(texts[i]) > 0}
    IN  IF valid = {} THEN None
        ELSE parse_price_text(texts[CHOOSE i \in valid : \A j \in valid : i <= j])

\* C24: when the static extractor returns, it returns the first valid price in
\* the order of its strategies: custom selector, common selectors in their
\* order, text patterns in their order, each in document order; so the value
\* of a later strategy is returned only when no earlier one has a valid price.
C24_FirstValidStrategyWins ==
    (detected # <<>> /\ Called(Detection, "static") /\ ~StaticOf(Detection).exc)
        => StaticOf(Detection).price
               = FirstValid(Candidates(Detection.env.soup, Detection.selector))

\* witness of C24: the custom selector matches an element without a price,
\* the first common selector an element with a price of zero and then one
\* with a price, which is returned, and the second common selector another price
C24_EarlierStrategyWins ==
    /\ detected # <<>>
    /\ Called(Detection, "static")
    /\ Detection.selector = CustomSelector
    /\ Detection.env.soup.elems[CustomSelector] = <<Absent>>
    /\ Detection.env.soup.elems[".price"] = <<Zero, OneDollar>>
    /\ Detection.env.soup.elems["#price"] = <<TwoDollars>>
    /\ StaticOf(Detection).price = Price(1)
    /\ Detection.out.price = Price(1)

\* C25: a delete deactivates exactly the selected product: no step
\* deactivates two products.
C25_DeleteDeactivatesOneProduct ==
    [][ \A j \in ProductIds, k \in ProductIds :
            (Deactivated(j) /\ Deactivated(k)) => j = k ]_vars

\* the price of the observation of product k that was appended last, None
\* when the history holds no observation of it
LastObservation(k) ==
    LET obs == {n \in 1..Len(price_history) : price_history[n].product_id = k}
    IN  IF obs = {} THEN None
        ELSE price_history[CHOOSE n \in obs : \A m \in obs : m <= n].price

\* the observations of product k that this step appends
NewObservations(k) ==
    {n \in (Len(price_history) + 1)..Len(price_history') : price_history'[n].product_id = k}

\* C26: the commit of a check cycle appends, for every product the cycle has
\* updated, exactly one observation, and its price is the new current price
\* of the product; and while the history is never cleared, the current price
\* of every product is the price of its last observation.
C26_UpdateAndObservationTogether ==
    /\ [][ \A t \in Threads :
               Committing(t)
                   => /\ \A k \in Written(t) :
                             /\ Cardinality(NewObservations(k)) = 1
                             /\ \A n \in NewObservations(k) :
                                    price_history'[n].price = products'[k].current_price
                      /\ \A k \in ProductIds \ Written(t) :
                             /\ NewObservations(k) = {}
                             /\ products'[k].current_price = products[k].current_price ]_vars
    /\ [](\A k \in ProductIds : products[k].current_price = LastObservation(k))

\* witness of C26: two cycles have been committed and have updated both
\* products, to different prices
C26_TwoProductsUpdated ==
    /\ Len(price_history) = 2
    /\ \E j \in ProductIds, k \in ProductIds :
           /\ j # k
           /\ products[j].current_price = Price(1)
           /\ products[k].current_price = Price(2)
           /\ LastObservation(j) = Price(1)
           /\ LastObservation(k) = Price(2)

====
